---------------------------- MODULE Spec2Model ----------------------------
(***************************************************************************)
(* A model of src/main.py: the conversion of a PresentationSpec into a     *)
(* presentation package by build_presentation, with its helpers            *)
(* hex_to_rgb, add_title_slide and add_content_slide.                      *)
(*                                                                         *)
(* Lengths and positions are in tenths of an inch (the source's Inches()   *)
(* arguments all have one decimal: 2.4 is 24, 1.0 is 10, 3.2 is 32).       *)
(* Strings that are parsed (the theme tokens) are sequences of one-        *)
(* character strings; strings that are only copied or tested for being     *)
(* empty are TLA+ strings.  Optional[str] fields hold None when absent.    *)
(***************************************************************************)
EXTENDS Integers, Sequences, FiniteSets, TLC

VARIABLES
    spec,      \* the PresentationSpec handed to build_presentation
    pc,        \* position of build_presentation
    colors,    \* the colors dict (line 160), NoColors before it is built
    prs,       \* the Presentation: the sequence of slides added so far
    slide_i,   \* position of the slide being rendered in spec.slides (from 1)
    item_i,    \* position of the next item of the loop at line 116 (from 1)
    y,         \* the vertical cursor of add_content_slide (line 115)
    fetched,   \* the requests.get calls issued so far, and whether each try block
               \* ran to its end (ok) or was left by an exception
    error,     \* the exception that left build_presentation, or NoError
    result     \* the package build_presentation returned, or NoResult

vars == <<spec, pc, colors, prs, slide_i, item_i, y, fetched, error, result>>

-----------------------------------------------------------------------------
(* Bounds of the model *)

\* longest enumerated theme token (six digits and one marker fit in 7)
MaxTokenLen == 7
\* most slides in an enumerated deck
MaxSlides == 3
\* most items on the enumerated content slide
MaxItems == 3

-----------------------------------------------------------------------------
(* Values *)

None == "<None>"
NoError == "<no error>"
NoColors == [primary |-> <<>>, accent |-> <<>>, text |-> <<>>]
NoResult == [returned |-> FALSE, slides |-> <<>>]

\* Python truthiness of an Optional[str]: None and "" are false
Truthy(v) == v # None /\ v # ""

\* Inches() arguments of add_content_slide, in tenths of an inch
InitialOffset == 24
TextIncrement == 10
ImageIncrement == 32
TextLeft == 9
TextWidth == 70
TextHeight == 12
PictureLeft == 82
PictureWidth == 45
PictureHeight == 28
PictureRaise == 2
CaptionDrop == 27
CaptionHeight == 6
SubtitleTop == 18
SubtitleWidth == 110
SubtitleHeight == 10

\* font sizes, in points
TitleFontSize == 54
ContentTitleFontSize == 38
ContentSubFontSize == 20
TextFontSize == 18
EquationFontSize == 20
CaptionFontSize == 12

\* slide layouts of the default template
TitleLayout == 0
TitleOnlyLayout == 5


-----------------------------------------------------------------------------
(* hex_to_rgb (lines 44-49) *)

\* the characters int(s, 16) reads as digits, at the position of their value + 1
LowerDigits == <<"0","1","2","3","4","5","6","7","8","9","a","b","c","d","e","f">>
UpperDigits == <<"0","1","2","3","4","5","6","7","8","9","A","B","C","D","E","F">>

IsHexDigit(c) == \E k \in 1..16 : LowerDigits[k] = c \/ UpperDigits[k] = c

HexValue(c) == (CHOOSE k \in 1..16 : LowerDigits[k] = c \/ UpperDigits[k] = c) - 1

\* str.lstrip('#'): every leading '#' is removed, not only the first
RECURSIVE lstrip(_)
lstrip(s) == IF s # <<>> /\ Head(s) = "#" THEN lstrip(Tail(s)) ELSE s

\* Python's s[a:b] for 0 <= a <= b: the bounds are clamped to the string
Slice(s, a, b) ==
    LET hi == IF b < Len(s) THEN b ELSE Len(s)
    IN  IF a >= hi THEN <<>> ELSE SubSeq(s, a + 1, hi)

\* str.strip() as int() applies it; the only whitespace modelled is " "
RECURSIVE StripLeft(_)
StripLeft(s) == IF s # <<>> /\ Head(s) = " " THEN StripLeft(Tail(s)) ELSE s

RECURSIVE StripRight(_)
StripRight(s) ==
    IF s # <<>> /\ s[Len(s)] = " " THEN StripRight(SubSeq(s, 1, Len(s) - 1)) ELSE s

\* int(s, 16) for a string of at most two characters: surrounding
\* whitespace is dropped, one sign is read, and what is left has to be one
\* or two hexadecimal digits ("0x" alone and "_" are rejected).
\* The result is <<value>>, or <<>> for the ValueError.
Int16(s) ==
    LET t == StripRight(StripLeft(s))
        signed == t # <<>> /\ t[1] \in {"+", "-"}
        d == IF signed THEN Tail(t) ELSE t
        mag == IF Len(d) = 1 THEN HexValue(d[1])
               ELSE 16 * HexValue(d[1]) + HexValue(d[2])
    IN  IF d = <<>> \/ \E k \in 1..Len(d) : ~IsHexDigit(d[k]) THEN <<>>
        ELSE IF signed /\ t[1] = "-" THEN <<0 - mag>> ELSE <<mag>>

\* the result of a color resolution that raised ValueError
Raised == <<>>

\* RGBColor(r, g, b) accepts integers in 0..255 and raises ValueError otherwise
RGBColor(r, g, b) ==
    IF \A v \in {r, g, b} : v \in 0..255 THEN <<r, g, b>> ELSE Raised

\* hex_to_rgb without the lstrip of line 45
hex_to_rgb_NoStrip(hex_str) ==
    LET r == Int16(Slice(hex_str, 0, 2))
        g == Int16(Slice(hex_str, 2, 4))
        b == Int16(Slice(hex_str, 4, 6))
    IN  IF r = <<>> \/ g = <<>> \/ b = <<>> THEN Raised
        ELSE RGBColor(r[1], g[1], b[1])

\* The three int() calls run in order; the first that raises ends the call.
hex_to_rgb(hex_str) ==
    LET h == lstrip(hex_str)
        r == Int16(Slice(h, 0, 2))
        g == Int16(Slice(h, 2, 4))
        b == Int16(Slice(h, 4, 6))
    IN  IF r = <<>> \/ g = <<>> \/ b = <<>> THEN Raised
        ELSE RGBColor(r[1], g[1], b[1])

-----------------------------------------------------------------------------
(* The inputs: PresentationSpec, SlideSpec, SlideItem (lines 24-41) *)

SlideItem(type, content, image_url, caption) ==
    [type |-> type, content |-> content, image_url |-> image_url,
     caption |-> caption]

SlideSpec(title, subtitle, items) ==
    [title |-> title, subtitle |-> subtitle, items |-> items]

PresentationSpec(primary, accent, text, slides, filename) ==
    [theme_primary |-> primary, theme_accent |-> accent, theme_text |-> text,
     slides |-> slides, filename |-> filename]

\* the defaults of PresentationSpec
DefaultPrimary == <<"0","b","1","2","2","0">>
DefaultAccent == <<"d","4","a","f","3","7">>
DefaultText == <<"f","f","f","f","f","f">>
DefaultFilename == "Mesurer_la_Terre.pptx"

\* all sequences over S of length at most n
SeqsUpTo(S, n) == UNION {[1..k -> S] : k \in 0..n}

\* the characters of the enumerated theme tokens: the marker, two
\* hexadecimal digits and a letter that is no hexadecimal digit
TokenChars == {"#", "0", "b", "g"}

\* tokens that show how int() reads signs, whitespace and capitals, and
\* tokens longer than the enumeration reaches
ExtraTokens ==
    { <<"+","1","+","2","+","3">>, <<" ","1","2"," ","3"," ">>,
      <<"-","1","0","0","0","0">>, <<"-","0","0","0","0","0">>,
      <<"0","x","0","0","0","0">>, <<"A","B","C","D","E","F">>,
      <<"0","b","1","2","2","0","g","g","g">>, DefaultAccent, DefaultText }

Tokens == SeqsUpTo(TokenChars, MaxTokenLen) \cup ExtraTokens

\* the item shapes the dispatch of lines 117 and 131 tells apart
ItemKinds ==
    { SlideItem("text", "Some text", None, None),
      SlideItem("text", "", None, None),
      SlideItem("equation", "C = 2 pi R", None, None),
      SlideItem("equation", None, "http://h/e.png", None),
      SlideItem("image", None, "http://h/a.png", "A caption"),
      SlideItem("image", "ignored", "http://h/b.png", None),
      SlideItem("image", None, "", "A caption"),
      SlideItem("title", "A title", None, None) }

Subtitles == {None, "", "Sub"}

\* the slides of the enumerated decks
DeckItemLists ==
    { <<>>,
      << SlideItem("image", None, "http://h/a.png", "A caption"),
         SlideItem("text", "Some text", None, None) >> }

DeckSlides ==
    { SlideSpec(t, s, its) : t \in {"A", "B"}, s \in Subtitles,
                             its \in DeckItemLists }

\* theme tokens tried together with decks
ThemeTokens ==
    { DefaultPrimary, <<"#","d","4","a","f","3","7">>,
      <<"g","g","0","0","0","0">>, <<>> }

ThemeDecks ==
    { <<>>,
      << SlideSpec("A", None, <<>>) >>,
      << SlideSpec("A", "Sub", <<>>),
         SlideSpec("B", None, <<SlideItem("text", "Some text", None, None)>>) >> }

Filenames == {DefaultFilename, "deck.pptx"}

-----------------------------------------------------------------------------
(* The document: slides and their shapes *)

Shape(kind, item, left, top, width, height, text, size, bold) ==
    [kind |-> kind, item |-> item, left |-> left, top |-> top,
     width |-> width, height |-> height, text |-> text, size |-> size,
     bold |-> bold]

\* slide.shapes.add_textbox / add_picture on the last slide of the document
AddShapes(p, shapes) ==
    [p EXCEPT ![Len(p)].shapes = @ \o shapes]

\* add_slide putting the new slide in front of those present
AddSlide_Front(p, slide) == <<slide>> \o p

\* prs.slides.add_slide(layout): the new slide goes after those present
AddSlide(p, slide) == Append(p, slide)

\* add_title_slide (lines 52-80): the subtitle placeholder is cleared and
\* written whenever the argument is not None
add_title_slide(p, title, subtitle, cols) ==
    AddSlide(p, [layout |-> TitleLayout,
                 background |-> cols.primary,
                 title |-> title,
                 title_size |-> TitleFontSize,
                 title_color |-> cols.text,
                 sub_written |-> subtitle # None,
                 sub_text |-> subtitle,
                 shapes |-> <<>>])

\* first.subtitle or "" (line 171)
SubtitleArgument(first) == IF Truthy(first.subtitle) THEN first.subtitle ELSE ""

\* add_content_slide up to the item loop (lines 84-115): the title, and
\* the subtitle text box when spec.subtitle is truthy
ContentSlideHead(p, s, cols) ==
    AddSlide(p, [layout |-> TitleOnlyLayout,
                 background |-> cols.primary,
                 title |-> s.title,
                 title_size |-> ContentTitleFontSize,
                 title_color |-> cols.text,
                 sub_written |-> FALSE,
                 sub_text |-> None,
                 shapes |-> IF Truthy(s.subtitle)
                            THEN << Shape("subtitle", 0, TextLeft, SubtitleTop,
                                          SubtitleWidth, SubtitleHeight,
                                          s.subtitle, ContentSubFontSize, FALSE) >>
                            ELSE <<>>])

\* the dispatch without the tests for a non-empty content and image_url
ItemBranch_TypeOnly(item) ==
    IF item.type \in {"text", "equation"} THEN "text"
    ELSE IF item.type = "image" THEN "image"
    ELSE "skip"

\* the branch of the loop body an item takes (lines 117 and 131)
ItemBranch(item) ==
    IF item.type \in {"text", "equation"} /\ Truthy(item.content) THEN "text"
    ELSE IF item.type = "image" /\ Truthy(item.image_url) THEN "image"
    ELSE "skip"

\* lines 118-129
TextShapes(i, item, cursor) ==
    << Shape("text", i, TextLeft, cursor, TextWidth, TextHeight, item.content,
             IF item.type = "text" THEN TextFontSize ELSE EquationFontSize,
             item.type = "equation") >>

\* what requests.get, raise_for_status, Image.open and the re-encoding of
\* lines 133-138 can end in; everything but "ok" is an exception
FetchOutcomes == {"ok", "timeout", "http_error", "decode_error"}

\* an image branch that leaves an empty box where the fetch failed
ImageShapes_Placeholder(i, item, cursor, outcome) ==
    << Shape("picture", i, PictureLeft, cursor - PictureRaise, PictureWidth,
             PictureHeight, IF outcome = "ok" THEN item.image_url ELSE "",
             0, FALSE) >>

\* lines 132-153: the picture and its caption when nothing raised, and
\* nothing at all when the except clause caught something
ImageShapes(i, item, cursor, outcome) ==
    IF outcome = "ok"
    THEN << Shape("picture", i, PictureLeft, cursor - PictureRaise,
                  PictureWidth, PictureHeight, item.image_url, 0, FALSE) >>
         \o (IF Truthy(item.caption)
             THEN << Shape("caption", i, PictureLeft, cursor + CaptionDrop,
                           PictureWidth, CaptionHeight, item.caption,
                           CaptionFontSize, FALSE) >>
             ELSE <<>>)
    ELSE <<>>

\* line 130
CursorAfterText(cursor) == cursor + TextIncrement

\* the increment of line 154 moved into the try block
CursorAfterImage_InTry(cursor, outcome) ==
    IF outcome = "ok" THEN cursor + ImageIncrement ELSE cursor

\* line 154: outside the try, so reached whatever the fetch did
CursorAfterImage(cursor, outcome) == cursor + ImageIncrement

-----------------------------------------------------------------------------
(* build_presentation (lines 157-179) *)

InvalidColorFormat == "ValueError"
EmptySlideList == "HTTPException(400, No slides provided)"

CurrentSlide == spec.slides[slide_i]
CurrentItem == CurrentSlide.items[item_i]

\* lines 158-164: the document is created and the three theme tokens are
\* resolved; a ValueError of hex_to_rgb leaves build_presentation
ResolveColors ==
    /\ pc = "colors"
    /\ LET primary == hex_to_rgb(spec.theme_primary)
           accent == hex_to_rgb(spec.theme_accent)
           text == hex_to_rgb(spec.theme_text)
       IN  IF Raised \in {primary, accent, text}
           THEN /\ pc' = "raised"
                /\ error' = InvalidColorFormat
                /\ UNCHANGED colors
           ELSE /\ pc' = "check"
                /\ colors' = [primary |-> primary, accent |-> accent,
                              text |-> text]
                /\ UNCHANGED error
    /\ prs' = <<>>
    /\ UNCHANGED <<spec, slide_i, item_i, y, fetched, result>>

\* the test of line 166
NoSlides(slides) == slides = <<>>

\* lines 166-167
CheckSlides ==
    /\ pc = "check"
    /\ IF NoSlides(spec.slides)
       THEN pc' = "raised" /\ error' = EmptySlideList
       ELSE pc' = "title" /\ UNCHANGED error
    /\ UNCHANGED <<spec, colors, prs, slide_i, item_i, y, fetched, result>>

\* the first slide sent through add_content_slide like the others
TitleSlide_AsContent ==
    /\ pc = "title"
    /\ prs' = ContentSlideHead(prs, spec.slides[1], colors)
    /\ slide_i' = 1
    /\ y' = InitialOffset
    /\ item_i' = 1
    /\ pc' = "items"
    /\ UNCHANGED <<spec, colors, fetched, error, result>>

\* lines 170-171
TitleSlide ==
    /\ pc = "title"
    /\ prs' = add_title_slide(prs, spec.slides[1].title,
                              SubtitleArgument(spec.slides[1]), colors)
    /\ slide_i' = 2
    /\ pc' = IF Len(spec.slides) >= 2 THEN "content" ELSE "save"
    /\ UNCHANGED <<spec, colors, item_i, y, fetched, error, result>>

\* line 174 and lines 84-115: the next slide of spec.slides[1:] is added
ContentSlide ==
    /\ pc = "content"
    /\ prs' = ContentSlideHead(prs, CurrentSlide, colors)
    /\ y' = InitialOffset
    /\ item_i' = 1
    /\ pc' = "items"
    /\ UNCHANGED <<spec, colors, slide_i, fetched, error, result>>

\* lines 117-130
PlaceText ==
    /\ pc = "items"
    /\ item_i <= Len(CurrentSlide.items)
    /\ ItemBranch(CurrentItem) = "text"
    /\ prs' = AddShapes(prs, TextShapes(item_i, CurrentItem, y))
    /\ y' = CursorAfterText(y)
    /\ item_i' = item_i + 1
    /\ UNCHANGED <<spec, pc, colors, slide_i, fetched, error, result>>

\* lines 131-154
FetchImage ==
    /\ pc = "items"
    /\ item_i <= Len(CurrentSlide.items)
    /\ ItemBranch(CurrentItem) = "image"
    /\ \E outcome \in FetchOutcomes :
          /\ prs' = AddShapes(prs, ImageShapes(item_i, CurrentItem, y, outcome))
          /\ y' = CursorAfterImage(y, outcome)
          /\ fetched' = Append(fetched, [slide |-> slide_i, item |-> item_i,
                                         url |-> CurrentItem.image_url,
                                         ok |-> outcome = "ok"])
    /\ item_i' = item_i + 1
    /\ UNCHANGED <<spec, pc, colors, slide_i, error, result>>

\* an item neither branch takes: the loop goes on to the next one
SkipItem ==
    /\ pc = "items"
    /\ item_i <= Len(CurrentSlide.items)
    /\ ItemBranch(CurrentItem) = "skip"
    /\ item_i' = item_i + 1
    /\ UNCHANGED <<spec, pc, colors, prs, slide_i, y, fetched, error, result>>

\* the loop of line 116 is over: add_content_slide returns (line 174)
EndContentSlide ==
    /\ pc = "items"
    /\ item_i > Len(CurrentSlide.items)
    /\ slide_i' = slide_i + 1
    /\ pc' = IF slide_i < Len(spec.slides) THEN "content" ELSE "save"
    /\ UNCHANGED <<spec, colors, prs, item_i, y, fetched, error, result>>

\* lines 177-179: the document is written to memory and returned
Save ==
    /\ pc = "save"
    /\ result' = [returned |-> TRUE, slides |-> prs]
    /\ pc' = "done"
    /\ UNCHANGED <<spec, colors, prs, slide_i, item_i, y, fetched, error>>

Next ==
    \/ ResolveColors
    \/ CheckSlides
    \/ TitleSlide
    \/ ContentSlide
    \/ PlaceText
    \/ FetchImage
    \/ SkipItem
    \/ EndContentSlide
    \/ Save

\* the state at the call of build_presentation
Entry(s) ==
    /\ spec = s
    /\ pc = "colors"
    /\ colors = NoColors
    /\ prs = <<>>
    /\ slide_i = 1
    /\ item_i = 1
    /\ y = 0
    /\ fetched = <<>>
    /\ error = NoError
    /\ result = NoResult

\* any theme tokens, with an empty, a one-slide and a two-slide deck
ThemeInputs ==
    { PresentationSpec(p, a, t, d, f) :
        p \in ThemeTokens, a \in ThemeTokens, t \in ThemeTokens,
        d \in ThemeDecks, f \in Filenames }

\* decks of up to MaxSlides slides
DeckInputs ==
    { PresentationSpec(DefaultPrimary, DefaultAccent, DefaultText, d,
                       DefaultFilename) :
        d \in SeqsUpTo(DeckSlides, MaxSlides) }

\* a title slide and one content slide of up to MaxItems items of any kind
LayoutInputs ==
    { PresentationSpec(DefaultPrimary, DefaultAccent, DefaultText,
                       << SlideSpec("A", None, <<>>), SlideSpec("B", s, its) >>,
                       DefaultFilename) :
        s \in {None, "Sub"}, its \in SeqsUpTo(ItemKinds, MaxItems) }

Init == \E s \in ThemeInputs \cup DeckInputs \cup LayoutInputs : Entry(s)

Spec == Init /\ [][Next]_vars

\* one theme token of any shape, with the one-slide deck
ColorInputs ==
    { PresentationSpec(p, DefaultAccent, DefaultText,
                       << SlideSpec("A", None, <<>>) >>, DefaultFilename) :
        p \in Tokens }

InitColor == \E s \in ColorInputs : Entry(s)

NextColor == ResolveColors

SpecColor == InitColor /\ [][NextColor]_vars

-----------------------------------------------------------------------------
(* Properties *)

NumSlides == Len(spec.slides)

\* the shapes of document slide k that come from item i of the input slide
ShapesOf(k, i) == { j \in 1..Len(prs[k].shapes) : prs[k].shapes[j].item = i }

\* the content of an item read as the claims read it, without the dispatch
HasText(item) ==
    item.type \in {"text", "equation"} /\ item.content \notin {None, ""}

HasImage(item) == item.type = "image" /\ item.image_url \notin {None, ""}

\* the document is the rendering of a prefix of the input slides, and the
\* returned package is the whole of it
C1_Prefix ==
    /\ Len(prs) <= NumSlides
    /\ \A k \in 1..Len(prs) :
          /\ prs[k].title = spec.slides[k].title
          /\ prs[k].layout = (IF k = 1 THEN TitleLayout ELSE TitleOnlyLayout)
          /\ \A j \in 1..Len(prs[k].shapes) :
                LET sh == prs[k].shapes[j]
                IN  sh.item = 0 \/
                    /\ sh.item \in 1..Len(spec.slides[k].items)
                    /\ sh.text \in { spec.slides[k].items[sh.item].content,
                                     spec.slides[k].items[sh.item].image_url,
                                     spec.slides[k].items[sh.item].caption }
    /\ pc = "done" =>
          /\ NumSlides >= 1
          /\ result.returned
          /\ result.slides = prs
          /\ Len(result.slides) = NumSlides

\* a step keeps every slide of the document in its place
C1_Stable ==
    /\ Len(prs') >= Len(prs)
    /\ \A k \in 1..Len(prs) :
          /\ prs'[k].title = prs[k].title
          /\ prs'[k].layout = prs[k].layout
          /\ k < Len(prs) => prs'[k] = prs[k]

\* C1: a successful conversion of n >= 1 slides yields exactly n document
\* slides, the k-th made from the k-th input slide (the first by the title
\* path, the others by the content path, each with its own title and only
\* shapes of its own items); while the document is assembled its slides are
\* the renderings of a prefix of the input, and a step neither removes nor
\* moves a slide that is already there.
C1_SlidesInInputOrder == [](C1_Prefix) /\ [][C1_Stable]_vars

C1_Witness ==
    /\ pc = "done"
    /\ NumSlides = 3
    /\ spec.slides[1].title # spec.slides[2].title
    /\ spec.slides[2].title # spec.slides[3].title
    /\ Len(result.slides) = 3

\* C2: a conversion of an empty slide list, whatever its theme tokens and
\* filename, ends with EmptySlideList, with no slide added and nothing
\* returned.
C2_EmptySlideList ==
    (NumSlides = 0 /\ pc \in {"raised", "done"}) =>
        /\ pc = "raised"
        /\ error = EmptySlideList
        /\ prs = <<>>
        /\ result = NoResult

\* the fetches that ended in an exception
Failed == { f \in 1..Len(fetched) : ~fetched[f].ok }

\* C3: with valid colors and n >= 1 slides no failing fetch stops the
\* conversion: nothing is raised, every state before the return has a next
\* step, the returned package has n slides, an item whose fetch failed has
\* left no shape at all, and every text or equation item with content on a
\* finished slide has its text box, whatever happened to the images
\* around it.
C3_ImageFailureIsLocal ==
    (colors # NoColors /\ NumSlides >= 1) =>
        /\ pc # "raised"
        /\ error = NoError
        /\ (pc # "done" => ENABLED Next)
        /\ (pc = "done" => result.returned /\ Len(result.slides) = NumSlides)
        /\ \A f \in Failed : ShapesOf(fetched[f].slide, fetched[f].item) = {}
        /\ \A k \in 2..Len(prs) :
              \A i \in 1..Len(spec.slides[k].items) :
                 (HasText(spec.slides[k].items[i])
                  /\ (k < Len(prs) \/ pc \in {"save", "done"} \/ i < item_i))
                 => \E j \in ShapesOf(k, i) :
                       /\ prs[k].shapes[j].kind = "text"
                       /\ prs[k].shapes[j].text = spec.slides[k].items[i].content

\* a failed fetch between two text items, both placed, in a returned package
C3_Witness ==
    /\ pc = "done"
    /\ NumSlides = 2
    /\ Len(spec.slides[2].items) = 3
    /\ HasText(spec.slides[2].items[1])
    /\ HasImage(spec.slides[2].items[2])
    /\ HasText(spec.slides[2].items[3])
    /\ \E f \in Failed : fetched[f].slide = 2 /\ fetched[f].item = 2
    /\ ShapesOf(2, 1) # {} /\ ShapesOf(2, 2) = {} /\ ShapesOf(2, 3) # {}

\* the tokens C4 is about: six hexadecimal digits, or '#' and six of them
SixDigits(t) == Len(t) = 6 /\ \A k \in 1..6 : IsHexDigit(t[k])

WellFormed(t) ==
    \/ SixDigits(t)
    \/ Len(t) = 7 /\ t[1] = "#" /\ SixDigits(Tail(t))

\* the k-th two-digit pair of six digits, read in base 16
PairValue(d, k) == 16 * HexValue(d[2 * k - 1]) + HexValue(d[2 * k])

\* C4: a theme token of exactly six hexadecimal digits, with or without one
\* leading '#', resolves, and to the triple of its three two-digit pairs
\* read in base 16.
C4_HexPairs ==
    (WellFormed(spec.theme_primary) /\ pc # "colors") =>
        LET d == IF spec.theme_primary[1] = "#" THEN Tail(spec.theme_primary)
                 ELSE spec.theme_primary
        IN  /\ pc = "check"
            /\ error = NoError
            /\ colors.primary = <<PairValue(d, 1), PairValue(d, 2), PairValue(d, 3)>>

\* "#0bb000" has resolved to (11, 176, 0)
C4_Witness ==
    /\ pc = "check"
    /\ spec.theme_primary = <<"#","0","b","b","0","0","0">>
    /\ colors.primary = <<11, 176, 0>>

\* what is left of a token once one leading '#' is taken off
Unmarked(t) == IF t # <<>> /\ t[1] = "#" THEN Tail(t) ELSE t

\* the tokens C5 is about: fewer than six characters are left, or one of
\* the first six is no hexadecimal digit
Malformed(t) ==
    \/ Len(Unmarked(t)) < 6
    \/ \E k \in 1..6 : ~IsHexDigit(Unmarked(t)[k])

\* C5: a malformed theme token ends the conversion with InvalidColorFormat
\* before any slide is added and before any image is fetched.
C5_MalformedTokenRejected ==
    (Malformed(spec.theme_primary) /\ pc # "colors") =>
        /\ pc = "raised"
        /\ error = InvalidColorFormat
        /\ prs = <<>>
        /\ fetched = <<>>

\* C6: the first slide goes through the title path whatever its items are:
\* it carries no text box, picture or caption and none of its images is
\* fetched; every later slide goes through the content path.
C6_FirstSlideIsTitle ==
    /\ Len(prs) >= 1 => prs[1].layout = TitleLayout /\ prs[1].shapes = <<>>
    /\ \A f \in 1..Len(fetched) : fetched[f].slide # 1
    /\ \A k \in 2..Len(prs) : prs[k].layout = TitleOnlyLayout
    /\ pc \in {"content", "items"} => slide_i >= 2

\* a returned package whose first input slide has an image and a text item
C6_Witness ==
    /\ pc = "done"
    /\ NumSlides >= 2
    /\ \E i \in 1..Len(spec.slides[1].items) : HasImage(spec.slides[1].items[i])
    /\ \E i \in 1..Len(spec.slides[1].items) : HasText(spec.slides[1].items[i])
    /\ fetched # <<>>

\* how many of the first n items have text, and how many have an image
TextCount(items, n) == Cardinality({ i \in 1..n : HasText(items[i]) })

ImageCount(items, n) == Cardinality({ i \in 1..n : HasImage(items[i]) })

\* an item that is to contribute nothing: its type is none of text,
\* equation and image, or the field its type needs is empty or absent
Contributes(item) == HasText(item) \/ HasImage(item)

\* the loop of line 116 is at, or past, the items of the current slide
InLoop == pc = "items"

\* the cursor and the text boxes on a slide without image items
C7_Cursor ==
    (InLoop /\ ImageCount(CurrentSlide.items, Len(CurrentSlide.items)) = 0) =>
        /\ y = InitialOffset + TextCount(CurrentSlide.items, item_i - 1) * TextIncrement
        /\ Cardinality({ j \in 1..Len(prs[slide_i].shapes) :
                           prs[slide_i].shapes[j].item > 0 })
             = TextCount(CurrentSlide.items, item_i - 1)

\* the step over an item that contributes nothing
C7_NoOpStep ==
    (InLoop /\ item_i <= Len(CurrentSlide.items) /\ ~Contributes(CurrentItem)) =>
        /\ y' = y
        /\ prs' = prs

\* C7: on a content slide without image items the cursor stands at
\* 2.4 + 1.0 * N inches, N the number of text and equation items with
\* content among those the loop has passed (all of them once the loop is
\* over), and the slide holds one text box for each; on any content slide,
\* the step over an item that contributes nothing adds no shape and leaves
\* the cursor where it was.
C7_TextCursor == [](C7_Cursor) /\ [][C7_NoOpStep]_vars

\* the loop is over on a slide of two text items and one item of type title
C7_Witness ==
    /\ InLoop
    /\ Len(CurrentSlide.items) = 3
    /\ item_i = 4
    /\ ImageCount(CurrentSlide.items, 3) = 0
    /\ TextCount(CurrentSlide.items, 3) = 2
    /\ \E i \in 1..3 : CurrentSlide.items[i].type = "title"
    /\ y = 44

\* two shapes share some horizontal extent (they are in the same column)
SameColumn(a, b) == a.left < b.left + b.width /\ b.left < a.left + a.width

\* C8: on a content slide the shapes of a later item start strictly lower
\* than those of an earlier item, and where two such shapes are in the same
\* column the earlier one ends at or above the top of the later one.
C8_NoOverlap ==
    \A k \in 2..Len(prs) :
       \A a, b \in 1..Len(prs[k].shapes) :
          LET sa == prs[k].shapes[a]
              sb == prs[k].shapes[b]
          IN  (sa.item > 0 /\ sa.item < sb.item) =>
                 /\ sa.top < sb.top
                 /\ SameColumn(sa, sb) => sa.top + sa.height <= sb.top

\* C9: a title slide whose subtitle is missing or empty gets no subtitle
\* written; one is written only for a subtitle that is not empty.
C9_EmptySubtitleOmitted ==
    Len(prs) >= 1 =>
        (prs[1].sub_written <=> spec.slides[1].subtitle \notin {None, ""})

\* the cursor before item i of a slide, from the items alone
CursorBefore(items, i) ==
    InitialOffset + TextCount(items, i - 1) * TextIncrement
                  + ImageCount(items, i - 1) * ImageIncrement

\* where a shape of the given kind goes when the cursor is at c
TopAt(kind, c) ==
    CASE kind = "text" -> c
      [] kind = "picture" -> c - PictureRaise
      [] kind = "caption" -> c + CaptionDrop

\* C10: the cursor passes every image item with a URL by 3.2 inches
\* whether its fetch succeeded or not: in the loop the cursor is a function
\* of the items passed alone, and so is the position of every shape placed,
\* so two runs on one spec that differ in the fetches that succeed put every
\* shape both runs have at one position.
C10_PlacementIgnoresFetch ==
    /\ InLoop => y = CursorBefore(CurrentSlide.items, item_i)
    /\ \A k \in 2..Len(prs) :
          \A j \in 1..Len(prs[k].shapes) :
             LET sh == prs[k].shapes[j]
             IN  sh.item > 0 =>
                    sh.top = TopAt(sh.kind, CursorBefore(spec.slides[k].items, sh.item))

\* a text box placed after a fetch that failed and a picture placed after
\* one that failed
C10_Witness ==
    /\ InLoop
    /\ \E f \in Failed :
          /\ fetched[f].slide = slide_i
          /\ \E j \in 1..Len(prs[slide_i].shapes) :
                /\ prs[slide_i].shapes[j].kind = "text"
                /\ prs[slide_i].shapes[j].item > fetched[f].item
          /\ \E j \in 1..Len(prs[slide_i].shapes) :
                /\ prs[slide_i].shapes[j].kind = "picture"
                /\ prs[slide_i].shapes[j].item > fetched[f].item

=============================================================================
